---- MODULE Spec2Model ----
(***************************************************************************)
(* A model of mobi's BasicSiteScraper (src/src/mobi/basic_site_scraper.py): *)
(* the URL policy, the link extractor, scrape_page and the recursive,       *)
(* depth-bounded scrape_recursive, run step by step on an explicit call     *)
(* stack over small web sites.                                              *)
(*                                                                          *)
(* A URL string is a sequence of atoms (short pieces of text).  The atoms   *)
(* are chosen so that a file extension, a skip pattern, the scheme and the  *)
(* host each occur as one whole atom: "endswith" is then a test of the last *)
(* atom and "in" a test of some atom.                                       *)
(***************************************************************************)
EXTENDS Integers, Sequences, FiniteSets, TLC

\* ------------------------------------------------------------------ bounds
\* max_depth of a session ranges over 0..MaxDepth
MaxDepth == 3
\* top-level calls (scrape_page or scrape_recursive) made on one session
MaxCalls == 2

\* -------------------------------------------------------------------- URLs
Scheme == "https://"
\* a netloc is one atom: a host, with its port when the URL names one
HostAtoms == {"example.test", "other.test", "sub.example.test", "example.test:8080"}

\* str.lower() on one atom
Lower(a) ==
  CASE a = ".PNG" -> ".png"
    [] a = ".CSV" -> ".csv"
    [] a = "/Login" -> "/login"
    [] OTHER -> a

\* urlparse(url).netloc: the host after the scheme, "" when there is none
netloc(url) ==
  IF Len(url) >= 2 /\ url[1] = Scheme /\ url[2] \in HostAtoms THEN url[2] ELSE ""

\* urljoin(current_url, href): an absolute href is kept, a path-absolute one
\* ("/...") takes the scheme and host of current_url
urljoin(current_url, href) ==
  IF Len(href) >= 1 /\ href[1] = Scheme THEN href
  ELSE IF Len(current_url) >= 2 THEN <<current_url[1], current_url[2]>> \o href
  ELSE href

skip_extensions == {".pdf", ".jpg", ".jpeg", ".png", ".gif", ".css", ".js", ".xml"}
skip_patterns == {"/api/", "/admin/", "/login", "/logout", "/register"}

\* url.lower().endswith(ext)
EndsWith(url, ext) == Len(url) >= 1 /\ Lower(url[Len(url)]) = ext
\* pattern in url
Contains(url, pattern) == \E i \in 1..Len(url) : url[i] = pattern

\* the host test also passing a subdomain of the base host (a mutant of is_valid_url)
is_valid_url_subdomains(url, base_netloc) ==
  /\ \/ netloc(url) = base_netloc
     \/ (netloc(url) = "sub.example.test" /\ base_netloc = "example.test")
  /\ ~ \E ext \in skip_extensions : EndsWith(url, ext)
  /\ ~ \E p \in skip_patterns : Contains(url, p)

\* the host test failing when no host was parsed (a mutant of is_valid_url)
is_valid_url_needs_host(url, base_netloc) ==
  /\ netloc(url) = base_netloc
  /\ netloc(url) # ""
  /\ ~ \E ext \in skip_extensions : EndsWith(url, ext)
  /\ ~ \E p \in skip_patterns : Contains(url, p)

\* _is_valid_url without the test of the file types (a mutant of is_valid_url)
is_valid_url_keeps_files(url, base_netloc) ==
  /\ netloc(url) = base_netloc
  /\ ~ \E p \in skip_patterns : Contains(url, p)

\* BasicSiteScraper._is_valid_url
is_valid_url(url, base_netloc) ==
  /\ netloc(url) = base_netloc
  /\ ~ \E ext \in skip_extensions : EndsWith(url, ext)
  /\ ~ \E p \in skip_patterns : Contains(url, p)

\* ---------------------------------------------------------- link extractor
Range(s) == {s[i] : i \in 1..Len(s)}
\* list(set(xs)): the elements of S in some order, each once
SetToLists(S) ==
  {s \in [1..Cardinality(S) -> S] : \A i, j \in 1..Cardinality(S) : s[i] = s[j] => i = j}

RECURSIVE AppendValid(_, _, _, _)
\* the loop of _extract_links from anchor i on: links.append(absolute_url) when valid
AppendValid(hrefs, i, current_url, base_netloc) ==
  IF i > Len(hrefs) THEN <<>>
  ELSE LET absolute_url == urljoin(current_url, hrefs[i])
           rest == AppendValid(hrefs, i + 1, current_url, base_netloc)
       IN  IF is_valid_url(absolute_url, base_netloc)
           THEN <<absolute_url>> \o rest ELSE rest

\* _extract_links appending every absolute_url, the policy not asked (a mutant)
extract_links_unfiltered(doc, current_url, base_netloc) ==
  SetToLists({urljoin(current_url, doc.hrefs[i]) : i \in 1..Len(doc.hrefs)})

\* BasicSiteScraper._extract_links: the lists it may return (set order is arbitrary)
extract_links(doc, current_url, base_netloc) ==
  SetToLists(Range(AppendValid(doc.hrefs, 1, current_url, base_netloc)))

\* ------------------------------------------------------ metadata extractor
\* The elements of a document, in document order.  An element has a tag, the
\* name and content attributes of a <meta> (content is << >> when the attribute
\* is absent), its text, and the container it is inside: "head", "body", one
\* of the layout containers, or "p", the one paragraph of the document.
El(tag, text, inside) ==
  [tag |-> tag, name |-> "", content |-> << >>, text |-> text, inside |-> inside]
Meta(name, content, inside) ==
  [tag |-> "meta", name |-> name, content |-> content, text |-> "", inside |-> inside]

\* get_text(strip=True) on the texts of the modelled elements
Strip(text) ==
  CASE text = " Welcome " -> "Welcome"
    [] text = "  " -> ""
    [] OTHER -> text

\* _clean_html, line 88: the tags decomposed with everything inside them
removed_tags == {"script", "style", "nav", "footer", "header"}

\* BasicSiteScraper._clean_html
clean_html(soup) ==
  LET NotDecomposed(e) == e.tag \notin removed_tags /\ e.inside \notin removed_tags
      NotComment(e) == e.tag # "comment"
      kept == SelectSeq(SelectSeq(soup, NotDecomposed), NotComment)
      empty_p == \A i \in 1..Len(kept) : kept[i].inside = "p" => Strip(kept[i].text) = ""
      NotInEmptyP(e) == ~ (e.inside = "p" /\ empty_p)
  IN  SelectSeq(kept, NotInEmptyP)

\* BasicSiteScraper._extract_metadata (scraped_at, a clock reading, is left
\* out); soup.find gives the first of the elements passing the test, if any
extract_metadata(soup, url) ==
  LET IsTitle(e) == e.tag = "title"
      IsDescription(e) == e.tag = "meta" /\ e.name = "description"
      IsHeading(e) == e.tag \in {"h1", "h2"}
      title == SelectSeq(soup, IsTitle)
      description == SelectSeq(soup, IsDescription)
      main_heading == SelectSeq(soup, IsHeading)
  IN  [title |-> IF title # << >> THEN Strip(title[1].text) ELSE "Untitled",
       description |-> IF description # << >>
                       THEN (IF description[1].content # << >>
                             THEN description[1].content[1] ELSE "")
                       ELSE "",
       main_heading |-> IF main_heading # << >> THEN Strip(main_heading[1].text) ELSE "",
       url |-> url]

\* scrape_page, lines 165-167: the soup _extract_metadata is given
MetadataSoup(doc) == clean_html(doc.elements)

\* ------------------------------------------------------ markdown converter
\* _clean_html, lines 88-89, on the <a href> elements: the hrefs of those
\* outside the decomposed containers, from the i-th on
RECURSIVE kept_anchors(_, _)
kept_anchors(doc, i) ==
  IF i > Len(doc.hrefs) THEN << >>
  ELSE IF doc.regions[i] \in removed_tags THEN kept_anchors(doc, i + 1)
  ELSE <<doc.hrefs[i]>> \o kept_anchors(doc, i + 1)

\* md() on the elements of the body, from the i-th on: ATX headings, text
RECURSIVE md_elements(_, _)
md_elements(soup, i) ==
  IF i > Len(soup) THEN << >>
  ELSE LET e == soup[i]
           rendered ==
             IF e.inside \notin {"body", "p"} \/ e.tag = "meta" THEN << >>
             ELSE IF e.tag = "h1" THEN <<"# ", Strip(e.text), "\n\n">>
             ELSE IF e.tag = "h2" THEN <<"## ", Strip(e.text), "\n\n">>
             ELSE <<Strip(e.text), "\n\n">>
       IN  rendered \o md_elements(soup, i + 1)

\* md() on the links: [text](href), the href as the document has it
RECURSIVE md_anchors(_, _)
md_anchors(hrefs, i) ==
  IF i > Len(hrefs) THEN << >>
  ELSE <<"[", "link", "](">> \o hrefs[i] \o <<")">> \o md_anchors(hrefs, i + 1)

\* BasicSiteScraper._html_to_markdown on the cleaned soup: the header of
\* lines 127-136 (without the time of scraping), then the body: its elements,
\* then its links
html_to_markdown(soup, hrefs, metadata) ==
  <<"# ", metadata.title, "\n\n", "**URL:** ">> \o metadata.url
  \o <<"\n", "**Description:** ", metadata.description,
       "\n", "**Main Heading:** ", metadata.main_heading, "\n\n", "---", "\n\n">>
  \o md_elements(soup, 1) \o md_anchors(hrefs, 1)

\* the links taken from the cleaned copy (a mutant of LinkSoup)
LinkSoup_cleaned(doc) ==
  [hrefs |-> kept_anchors(doc, 1),
   regions |-> [i \in 1..Len(kept_anchors(doc, 1)) |-> "body"],
   elements |-> doc.elements]

\* scrape_page, lines 161-162: _extract_links is given soup_full
LinkSoup(doc) == doc

\* ------------------------------------------------------------------- sites
\* The web the session crawls: a function from the URLs that exist to their
\* documents.  A document is the list of hrefs of its <a href> elements, in
\* document order, each with the container it is inside ("body" or a layout
\* container), and the list of its other elements (see the metadata
\* extractor).  A URL outside the domain answers 404.
U(path) == <<Scheme, "example.test">> \o path
Anchor == U(<<"/">>)
About == U(<<"/about">>)
PageB == U(<<"/b">>)
PageC == U(<<"/c">>)
PageP == U(<<"/p">>)
PageX == U(<<"/x">>)
Logo == U(<<"/logo", ".png">>)
Login == U(<<"/login">>)
OtherHome == <<Scheme, "other.test", "/">>

\* a document whose i-th link is inside regions[i]
DocIn(hrefs, regions) == [hrefs |-> hrefs, regions |-> regions, elements |-> << >>]
Doc(hrefs) == DocIn(hrefs, [i \in 1..Len(hrefs) |-> "body"])

\* the spec's end-to-end scenario A, with a duplicate link, a link back to the
\* anchor, a self-link and a page on another host that links into the site
SiteScenarioA ==
  (Anchor :> Doc(<< <<"/about">>, <<"/logo", ".png">>, OtherHome, <<"/about">> >>))
  @@ (About :> Doc(<< <<"/">>, <<"/login">>, <<"/about">>, <<"/b">> >>))
  @@ (PageB :> Doc(<< <<"/logo", ".PNG">>, <<"/about">> >>))
  @@ (Logo :> Doc(<< >>))
  @@ (Login :> Doc(<< <<"/">> >>))
  @@ (OtherHome :> Doc(<< About, <<"/b">> >>))

\* a page (/p) reachable from the anchor both directly and through a longer
\* path, with a child (/x) of its own
SiteRejoin ==
  (Anchor :> Doc(<< <<"/b">>, <<"/p">> >>))
  @@ (PageB :> Doc(<< <<"/c">> >>))
  @@ (PageC :> Doc(<< <<"/p">> >>))
  @@ (PageP :> Doc(<< <<"/x">> >>))
  @@ (PageX :> Doc(<< >>))

\* three siblings under the anchor, a cycle among them, one dead link (/x);
\* some links are in the navigation, header and footer of their page
SiteSiblings ==
  (Anchor :> DocIn(<< <<"/b">>, <<"/c">>, <<"/x">> >>, <<"body", "nav", "footer">>))
  @@ (PageB :> DocIn(<< <<"/">>, <<"/c">> >>, <<"header", "body">>))
  @@ (PageC :> DocIn(<< <<"/b">>, <<"/p">> >>, <<"body", "nav">>))
  @@ (PageP :> Doc(<< <<"/api/">>, <<"/c">> >>))

Sites == {SiteScenarioA, SiteRejoin, SiteSiblings}
\* the URLs a caller passes to scrape_page and scrape_recursive
StartUrls == {Anchor, PageB, Login, OtherHome}

\* what can go wrong in the try block of scrape_page: the request (a timeout,
\* raise_for_status on a non-2xx answer) or the processing of the document
RequestError == "HTTPError"
ProcessingError == "ParseError"

\* ------------------------------------------------------------------- state
VARIABLES
  site,             \* the web (environment)
  flaky,            \* whether requests and processing may fail on existing pages
  base_url,         \* self.base_url
  base_netloc,      \* self.base_netloc
  max_depth,        \* self.max_depth
  visited_urls,     \* self.visited_urls
  scraped_content,  \* self.scraped_content
  stack,            \* the frames of scrape_recursive, innermost last
  returned,         \* what the last finished top-level call returned
  calls,            \* top-level calls made on this session
  sleeps,           \* time.sleep(self.delay) calls since the last request
  log,              \* one entry per request session.get made, in order
  prev,             \* the results of the previous session (the depth study)
  volume,           \* the file tree at volume_root (data_downloader)
  bundle            \* the archive at bundle_path (data_downloader)

vars == <<site, flaky, base_url, base_netloc, max_depth, visited_urls,
          scraped_content, stack, returned, calls, sleeps, log, prev,
          volume, bundle>>

NoUrl == << >>
EmptyMap == << >>
NoSession == [max_depth |-> -1, results |-> EmptyMap]
\* no volume is mounted and no archive given: the scraper studies
NoBundle == [exists |-> FALSE, tree |-> EmptyMap]
NoVolume == volume = EmptyMap /\ bundle = NoBundle
Put(m, k, v) == [x \in (DOMAIN m) \cup {k} |-> IF x = k THEN v ELSE m[x]]

\* ----------------------------------------------------------------- fetcher
\* self.session.get(url) with raise_for_status() and the processing after it:
\* the outcomes the try block of scrape_page can have for url
Responses(url) ==
  IF url \in DOMAIN site
  THEN {[kind |-> "ok", doc |-> site[url]]}
       \cup (IF flaky THEN {[kind |-> RequestError], [kind |-> ProcessingError]} ELSE {})
  ELSE {[kind |-> RequestError]}

\* ------------------------------------------------------------- scrape_page
None == [kind |-> "None"]

\* `if url in self.visited_urls` never true (a mutant of AlreadyVisited)
AlreadyVisited_never(url) == FALSE

\* scrape_page, line 152: if url in self.visited_urls
AlreadyVisited(url) == url \in visited_urls

\* `except requests.RequestException` (a mutant of Caught)
Caught_requests_only(e) == e = RequestError

\* `except` catching nothing the try block raises (a mutant of Caught)
Caught_nothing(e) == FALSE

\* scrape_page, line 183: except Exception
Caught(e) == e \in {RequestError, ProcessingError}

\* the result dict of the success path
SuccessResult(url, links, doc) ==
  [url |-> url,
   metadata |-> extract_metadata(MetadataSoup(doc), url),
   content |-> html_to_markdown(MetadataSoup(doc), kept_anchors(doc, 1),
                                extract_metadata(MetadataSoup(doc), url)),
   links |-> links,
   status |-> "success"]

\* the except branch returning the links of the anchor page and a content
\* without the URL (a mutant of ErrorResult)
ErrorResult_stale(url, e) ==
  [url |-> url,
   metadata |-> [title |-> "Error", url |-> url],
   content |-> <<"# ", "Error", " scraping ", "\n\n", "Error", ": ", e>>,
   links |-> <<Anchor>>,
   status |-> "error"]

\* the result dict of the except branch; content is the f-string
\* "# Error scraping {url}\n\nError: {str(e)}", atom by atom
ErrorResult(url, e) ==
  [url |-> url,
   metadata |-> [title |-> "Error", url |-> url],
   content |-> <<"# ", "Error", " scraping ">> \o url \o <<"\n\n", "Error", ": ", e>>,
   links |-> << >>,
   status |-> "error"]

\* the except branch leaving visited_urls alone (a mutant of VisitedAfterError)
VisitedAfterError_unmarked(url) == visited_urls

\* scrape_page, line 185: self.visited_urls.add(url) in the except branch
VisitedAfterError(url) == visited_urls \cup {url}

\* scrape_page, line 170: self.visited_urls.add(url) on the success path
VisitedAfterSuccess(url) == visited_urls \cup {url}

\* self.scraped_content rebound to a dict of this result alone (a mutant of
\* StoredAfterSuccess)
StoredAfterSuccess_fresh(url, result) == (url :> result)

\* scrape_page, line 180: self.scraped_content[url] = result
StoredAfterSuccess(url, result) == Put(scraped_content, url, result)

\* the except branch assigns nothing to self.scraped_content
StoredAfterError(url, result) == scraped_content

\* what the try block does with one response
PageOutcomes(url, resp) ==
  IF resp.kind = "ok"
  THEN {[visited |-> VisitedAfterSuccess(url),
         content |-> StoredAfterSuccess(url, SuccessResult(url, links, resp.doc)),
         ret |-> [kind |-> "page", result |-> SuccessResult(url, links, resp.doc)],
         request |-> TRUE, status |-> "success"]
        : links \in extract_links(LinkSoup(resp.doc), url, base_netloc)}
  ELSE IF Caught(resp.kind)
  THEN {[visited |-> VisitedAfterError(url),
         content |-> StoredAfterError(url, ErrorResult(url, resp.kind)),
         ret |-> [kind |-> "page", result |-> ErrorResult(url, resp.kind)],
         request |-> TRUE, status |-> "error"]}
  ELSE {[visited |-> visited_urls,
         content |-> scraped_content,
         ret |-> [kind |-> "raise", error |-> resp.kind],
         request |-> TRUE, status |-> "error"]}

\* BasicSiteScraper.scrape_page: the outcomes of one call
scrape_page(url) ==
  IF AlreadyVisited(url)
  THEN {[visited |-> visited_urls, content |-> scraped_content, ret |-> None,
         request |-> FALSE, status |-> "none"]}
  ELSE UNION {PageOutcomes(url, resp) : resp \in Responses(url)}

\* the log after a call of scrape_page with outcome o
Logged(o, url, op, depth, parent, call) ==
  IF o.request
  THEN Append(log, [url |-> url, op |-> op, depth |-> depth, parent |-> parent,
                    status |-> o.status, call |-> call, gap |-> sleeps])
  ELSE log

\* -------------------------------------------------------------- __init__
NothingReturned == [op |-> "none", url |-> NoUrl, ret |-> None]

Init ==
  /\ site \in Sites
  /\ flaky = TRUE
  /\ base_url = Anchor
  /\ base_netloc = netloc(Anchor)
  /\ max_depth \in 0..MaxDepth
  /\ visited_urls = {}
  /\ scraped_content = EmptyMap
  /\ stack = << >>
  /\ returned = NothingReturned
  /\ calls = 0
  /\ sleeps = 0
  /\ log = << >>
  /\ prev = NoSession
  /\ NoVolume

Unchanged_session ==
  UNCHANGED <<site, flaky, base_url, base_netloc, max_depth, prev, volume, bundle>>

\* ------------------------------------------------- a caller of scrape_page
CallScrapePage(url) ==
  /\ stack = << >>
  /\ calls < MaxCalls
  /\ \E o \in scrape_page(url) :
       /\ visited_urls' = o.visited
       /\ scraped_content' = o.content
       /\ returned' = [op |-> "scrape_page", url |-> url, ret |-> o.ret]
       /\ log' = Logged(o, url, "scrape_page", 0, NoUrl, calls + 1)
       /\ sleeps' = IF o.request THEN 0 ELSE sleeps
  /\ calls' = calls + 1
  /\ UNCHANGED stack
  /\ Unchanged_session

\* --------------------------------------------------------- scrape_recursive
Top == stack[Len(stack)]
Frame(url, depth) ==
  [start_url |-> url, current_depth |-> depth, pc |-> "enter", links |-> << >>, i |-> 0]
WithTop(f) == [stack EXCEPT ![Len(stack)] = f]
Parent == IF Len(stack) >= 2 THEN stack[Len(stack) - 1].start_url ELSE NoUrl

\* a caller's scrape_recursive(url): current_depth takes its default, 0
CallScrapeRecursive(url) ==
  /\ stack = << >>
  /\ calls < MaxCalls
  /\ stack' = <<Frame(url, 0)>>
  /\ calls' = calls + 1
  /\ UNCHANGED <<visited_urls, scraped_content, returned, sleeps, log>>
  /\ Unchanged_session

\* a return statement of the innermost call: the caller's loop discards the
\* value (line 215), the top-level caller receives it
Return(value) ==
  /\ stack' = SubSeq(stack, 1, Len(stack) - 1)
  /\ returned' = IF Len(stack) = 1
                 THEN [op |-> "scrape_recursive", url |-> Top.start_url,
                       ret |-> [kind |-> "mapping", value |-> value]]
                 ELSE returned

\* an exception leaving scrape_page: scrape_recursive has no handler, every frame unwinds
Propagate(ret) ==
  /\ stack' = << >>
  /\ returned' = [op |-> "scrape_recursive", url |-> stack[1].start_url, ret |-> ret]

\* line 198, of the innermost call: if current_depth > self.max_depth
TooDeep(f) == f.current_depth > max_depth

\* lines 198-207: the two guards, then scrape_page(start_url)
Enter ==
  /\ stack # << >>
  /\ Top.pc = "enter"
  /\ IF TooDeep(Top) \/ Top.start_url \in visited_urls
     THEN /\ Return(EmptyMap)
          /\ UNCHANGED <<visited_urls, scraped_content, sleeps, log>>
     ELSE \E o \in scrape_page(Top.start_url) :
            /\ visited_urls' = o.visited
            /\ scraped_content' = o.content
            /\ log' = Logged(o, Top.start_url, "scrape_recursive",
                             Top.current_depth, Parent, calls)
            /\ sleeps' = IF o.request THEN 0 ELSE sleeps
            /\ IF o.ret.kind = "raise" THEN Propagate(o.ret)
               ELSE IF o.ret.kind = "None" THEN Return(EmptyMap)
               ELSE /\ stack' = WithTop([Top EXCEPT !.pc = "sleep",
                                                    !.links = o.ret.result.links])
                    /\ UNCHANGED returned
  /\ UNCHANGED calls
  /\ Unchanged_session

\* line 210 left out (a mutant of SleptAfterPage)
SleptAfterPage_not == sleeps

\* line 210: time.sleep(self.delay)
SleptAfterPage == sleeps + 1

\* line 216: time.sleep(self.delay)
SleptAfterChild == sleeps + 1

\* line 210: the delay after the page of this call
SleepAfterPage ==
  /\ stack # << >>
  /\ Top.pc = "sleep"
  /\ sleeps' = SleptAfterPage
  /\ stack' = WithTop([Top EXCEPT !.pc = "loop", !.i = 1])
  /\ UNCHANGED <<visited_urls, scraped_content, returned, calls, log>>
  /\ Unchanged_session

\* line 214: if link not in self.visited_urls and current_depth < self.max_depth
Recurses(f, link) == link \notin visited_urls /\ f.current_depth < max_depth

\* line 218 returning a fresh dict (a mutant of ReturnedAfterLoop)
ReturnedAfterLoop_empty == EmptyMap

\* line 218: return self.scraped_content
ReturnedAfterLoop == scraped_content

\* the loop taking the links from the last to the first (a mutant of NextLink)
NextLink_backwards(f) == f.links[Len(f.links) + 1 - f.i]

\* line 213: for link in result["links"], at its i-th turn
NextLink(f) == f.links[f.i]

\* lines 213-215 and 218: one turn of the loop over the links, or the return after it
Loop ==
  /\ stack # << >>
  /\ Top.pc = "loop"
  /\ IF Top.i > Len(Top.links)
     THEN Return(ReturnedAfterLoop)
     ELSE /\ IF Recurses(Top, NextLink(Top))
             THEN stack' = Append(WithTop([Top EXCEPT !.pc = "after"]),
                                  Frame(NextLink(Top), Top.current_depth + 1))
             ELSE stack' = WithTop([Top EXCEPT !.i = Top.i + 1])
          /\ UNCHANGED returned
  /\ UNCHANGED <<visited_urls, scraped_content, calls, sleeps, log>>
  /\ Unchanged_session

\* line 216: the delay after the recursive call returned
SleepAfterChild ==
  /\ stack # << >>
  /\ Top.pc = "after"
  /\ sleeps' = SleptAfterChild
  /\ stack' = WithTop([Top EXCEPT !.pc = "loop", !.i = Top.i + 1])
  /\ UNCHANGED <<visited_urls, scraped_content, returned, calls, log>>
  /\ Unchanged_session

Step == Enter \/ SleepAfterPage \/ Loop \/ SleepAfterChild

Next ==
  \/ \E url \in StartUrls : CallScrapePage(url)
  \/ \E url \in StartUrls : CallScrapeRecursive(url)
  \/ Step

Spec == Init /\ [][Next]_vars

\* ------------------------------------------------------ the depth study
\* The same site crawled by a session with max_depth = k and then by a fresh
\* session with max_depth = k + 1, every request and every processing
\* succeeding.
InitDepth ==
  /\ site \in Sites
  /\ flaky = FALSE
  /\ base_url = Anchor
  /\ base_netloc = netloc(Anchor)
  /\ max_depth \in 0..MaxDepth
  /\ visited_urls = {}
  /\ scraped_content = EmptyMap
  /\ stack = << >>
  /\ returned = NothingReturned
  /\ calls = 0
  /\ sleeps = 0
  /\ log = << >>
  /\ prev = NoSession
  /\ NoVolume

\* scrape_recursive(base_url) on a session that has made no call yet
StartCrawl ==
  /\ calls = 0
  /\ CallScrapeRecursive(base_url)

\* BasicSiteScraper(base_url, max_depth = max_depth + 1): __init__, lines 33-41,
\* after the crawl of the first session has returned
NewSession ==
  /\ stack = << >>
  /\ calls = 1
  /\ prev = NoSession
  /\ prev' = [max_depth |-> max_depth, results |-> scraped_content]
  /\ max_depth' = max_depth + 1
  /\ base_netloc' = netloc(base_url)
  /\ visited_urls' = {}
  /\ scraped_content' = EmptyMap
  /\ returned' = NothingReturned
  /\ calls' = 0
  /\ sleeps' = 0
  /\ log' = << >>
  /\ UNCHANGED <<site, flaky, base_url, stack, volume, bundle>>

NextDepth == StartCrawl \/ Step \/ NewSession

SpecDepth == InitDepth /\ [][NextDepth]_vars

\* ------------------------------------------------------ reading the log
LogUrls == {log[i].url : i \in 1..Len(log)}
Keys == DOMAIN scraped_content
NoDuplicates(s) == \A i, j \in 1..Len(s) : s[i] = s[j] => i = j
\* no call is running
Idle == stack = << >>
\* the first call made on the session was scrape_recursive and has returned
FirstCrawlDone == Idle /\ calls = 1 /\ returned.op = "scrape_recursive"

\* the policy-valid links of the page at url, as the site serves it
SiteLinks(url) ==
  IF url \in DOMAIN site
  THEN Range(AppendValid(site[url].hrefs, 1, url, base_netloc))
  ELSE {}
RECURSIVE Within(_, _)
\* the URLs at link distance at most k from url
Within(url, k) ==
  IF k = 0 THEN {url}
  ELSE LET near == Within(url, k - 1)
       IN  near \cup UNION {SiteLinks(u) : u \in near}

\* ---------------------------------------------------------------- claims

\* C1: in one session, whatever the site, max_depth, the outcomes of the
\* requests and the calls made, no URL is requested more than once.
C1_AtMostOneFetchPerUrl ==
  \A i, j \in 1..Len(log) : log[i].url = log[j].url => i = j

\* C1's case: a URL whose request failed in an earlier call is the start URL
\* of a later scrape_recursive, which has returned.
C1_Witness ==
  /\ Idle /\ calls = 2 /\ returned.op = "scrape_recursive"
  /\ \E i \in 1..Len(log) :
       log[i].url = returned.url /\ log[i].call = 1 /\ log[i].status = "error"

\* C2: the keys of scraped_content are the URLs requested so far, and a URL
\* whose request failed has an entry with status error.
C2_ResultsCoverEveryFetch ==
  /\ Keys = LogUrls
  /\ \A i \in 1..Len(log) :
       log[i].status = "error" =>
         log[i].url \in Keys /\ scraped_content[log[i].url].status = "error"

\* C3: a failure in one page never leaves scrape_page as an exception and never
\* aborts scrape_recursive; no page is fetched as the child of a failed page;
\* and once the calls have returned every sibling link of a failed page (every
\* link of its parent) has been requested.
C3_FailureIsContained ==
  /\ returned.ret.kind # "raise"
  /\ \A i \in 1..Len(log) :
       log[i].parent # NoUrl =>
         \E j \in 1..(i - 1) : log[j].url = log[i].parent /\ log[j].status = "success"
  /\ Idle =>
       \A i \in 1..Len(log) :
         (log[i].status = "error" /\ log[i].parent # NoUrl) =>
           /\ log[i].parent \in Keys
           /\ Range(scraped_content[log[i].parent].links) \subseteq LogUrls

\* C3's case: a page failed inside a crawl that has returned, and a sibling of
\* it was requested after the failure, in the same crawl.
C3_Witness ==
  /\ Idle
  /\ \E i, j \in 1..Len(log) :
       /\ i < j
       /\ log[i].status = "error" /\ log[i].parent # NoUrl
       /\ log[j].parent = log[i].parent /\ log[j].call = log[i].call

\* the start URL of the crawl that made request i
CrawlStart(i) ==
  LET roots == {j \in 1..Len(log) : log[j].call = log[i].call /\ log[j].depth = 0}
  IN  log[CHOOSE j \in roots : TRUE].url

\* The depth bound of scrape_recursive: no request at a depth over max_depth, a
\* child is requested one level below its parent, every requested URL is
\* within max_depth links of the start URL.
DepthBound ==
  /\ \A i \in 1..Len(log) : log[i].depth <= max_depth
  /\ \A i \in 1..Len(log) :
       log[i].parent # NoUrl =>
         \E j \in 1..(i - 1) :
           log[j].url = log[i].parent /\ log[j].depth + 1 = log[i].depth
  /\ \A i \in 1..Len(log) :
       log[i].op = "scrape_recursive" => log[i].url \in Within(CrawlStart(i), max_depth)

\* C4: the depth bound holds, and with max_depth = 0 a crawl of a fresh session
\* makes exactly one request, of the start URL, and leaves exactly one entry in
\* scraped_content.
C4_DepthBounded ==
  /\ DepthBound
  /\ (FirstCrawlDone /\ max_depth = 0) =>
       /\ Len(log) = 1
       /\ log[1].url = returned.url
       /\ Cardinality(Keys) = 1

\* the depth at which the crawl of this session requested url
DepthOf(url) == log[CHOOSE i \in 1..Len(log) : log[i].url = url].depth

\* both sessions of the depth study have crawled, with the same link lists on
\* the pages they share
DepthStudyDone ==
  /\ prev # NoSession
  /\ FirstCrawlDone
  /\ \A u \in (DOMAIN prev.results) \cap Keys :
       prev.results[u].links = scraped_content[u].links

\* C5: same site, same link order, every request succeeding: the results of
\* the crawl with max_depth = k + 1 hold every URL of the crawl with
\* max_depth = k, and each URL they add was reached at depth k + 1.
C5_DeeperCrawlOnlyAdds ==
  DepthStudyDone =>
    /\ (DOMAIN prev.results) \subseteq Keys
    /\ \A u \in Keys \ (DOMAIN prev.results) : DepthOf(u) = max_depth

\* C6: when the request of the start URL fails, scrape_recursive makes no other
\* request and returns, and scraped_content holds exactly the start URL, with
\* status error and no links.
C6_StartFailureLeavesOneErrorEntry ==
  (FirstCrawlDone /\ Len(log) >= 1 /\ log[1].status = "error") =>
    /\ Len(log) = 1
    /\ Keys = {returned.url}
    /\ scraped_content[returned.url].status = "error"
    /\ scraped_content[returned.url].links = << >>

\* C7: scrape_page on a URL already in visited_urls, whether its first call
\* succeeded or failed, makes no request, returns None and leaves visited_urls
\* and scraped_content as they were.
C7_SecondScrapePageIsNoOp ==
  [][\A url \in StartUrls :
       (url \in visited_urls /\ CallScrapePage(url)) =>
         /\ returned'.ret = None
         /\ UNCHANGED <<visited_urls, scraped_content, log>>]_vars

\* C7's case: scrape_page has just returned None for a URL whose first request
\* failed.
C7_Witness ==
  /\ returned.op = "scrape_page" /\ returned.ret = None
  /\ \E i \in 1..Len(log) : log[i].url = returned.url /\ log[i].status = "error"

\* C8: within one scrape_recursive run, at least one sleep lies between a
\* request and the request before it, whether that one succeeded or failed.
C8_SleepBetweenFetches ==
  \A i \in 2..Len(log) :
    (log[i].op = "scrape_recursive" /\ log[i - 1].call = log[i].call) => log[i].gap >= 1

\* C8's case: in one run a request follows a failed one, and another follows a
\* recursive descent that has returned.
C8_Witness ==
  /\ \E i \in 2..Len(log) :
       /\ log[i].op = "scrape_recursive" /\ log[i - 1].call = log[i].call
       /\ log[i - 1].status = "error"
  /\ \E i \in 2..Len(log) :
       /\ log[i].op = "scrape_recursive" /\ log[i - 1].call = log[i].call
       /\ log[i].depth <= log[i - 1].depth

\* C9: the links of every page result, stored or returned, have passed
\* _is_valid_url for the session's base_netloc and hold no duplicates, and so
\* has every URL scrape_recursive has recursed into.
C9_LinksPassPolicy ==
  /\ \A u \in Keys :
       /\ \A l \in Range(scraped_content[u].links) : is_valid_url(l, base_netloc)
       /\ NoDuplicates(scraped_content[u].links)
  /\ returned.ret.kind = "page" =>
       /\ \A l \in Range(returned.ret.result.links) : is_valid_url(l, base_netloc)
       /\ NoDuplicates(returned.ret.result.links)
  /\ \A k \in 2..Len(stack) : is_valid_url(stack[k].start_url, base_netloc)

\* C9's case: the anchor of scenario A, whose document links twice to /about
\* and once each to an image and to another host, is stored with the one link
\* /about, and the crawl has recursed into it.
C9_Witness ==
  /\ site = SiteScenarioA
  /\ Anchor \in Keys
  /\ scraped_content[Anchor].links = <<About>>
  /\ Len(stack) = 2 /\ stack[2].start_url = About

\* C10: whatever start URL is passed to scrape_page or scrape_recursive,
\* scraped_content has no entry for a URL that _is_valid_url rejects.
C10_NoResultForRejectedUrl ==
  \A u \in Keys : is_valid_url(u, base_netloc)

\* every request of the session so far succeeded
AllSucceeded == \A i \in 1..Len(log) : log[i].status = "success"
\* the absolute URLs of the hrefs of the page at url, as the site serves it
SiteCandidates(url) ==
  {urljoin(url, site[url].hrefs[i]) : i \in 1..Len(site[url].hrefs)}

\* C11: max_depth = 1, every request succeeding: after scrape_recursive(anchor)
\* on a fresh session the keys of scraped_content are the anchor and the links
\* of the anchor page that pass the policy; a link the policy rejects has no
\* entry, was never requested and is not among the anchor's stored links.  On
\* scenario A the keys are the anchor and /about.
C11_OneLevelCrawl ==
  (FirstCrawlDone /\ returned.url = base_url /\ max_depth = 1 /\ AllSucceeded) =>
    LET valid == {c \in SiteCandidates(base_url) : is_valid_url(c, base_netloc)}
    IN  /\ Keys = {base_url} \cup valid
        /\ \A c \in SiteCandidates(base_url) \ valid :
             /\ c \notin Keys
             /\ c \notin LogUrls
             /\ c \notin Range(scraped_content[base_url].links)
        /\ site = SiteScenarioA =>
             /\ Keys = {Anchor, About}
             /\ {Logo, OtherHome} \cap (LogUrls \cup Range(scraped_content[Anchor].links)) = {}

\* C11's case: the one-level crawl of scenario A has returned, every request
\* having succeeded, the image and the other host among the anchor's hrefs.
C11_Witness ==
  /\ FirstCrawlDone /\ returned.url = base_url /\ max_depth = 1 /\ AllSucceeded
  /\ site = SiteScenarioA
  /\ {Logo, OtherHome} \subseteq SiteCandidates(Anchor)
  /\ Len(log) = 2

\* the call that has just returned made the request of its start URL itself
StartWasNew ==
  \E i \in 1..Len(log) :
    log[i].url = returned.url /\ log[i].call = calls /\ log[i].depth = 0

\* C12 as stated: every top-level scrape_recursive returns the session's
\* scraped_content, the mapping get_scraped_content() returns, whatever the
\* state of the session.
C12_ReturnsFullResults ==
  (Idle /\ returned.op = "scrape_recursive") => returned.ret.value = scraped_content

\* C12 as amended: a top-level scrape_recursive whose start URL was not yet in
\* visited_urls returns the session's scraped_content; one whose start URL was
\* already visited returns an empty mapping.
C12_ReturnsFullResultsIfNew ==
  (Idle /\ returned.op = "scrape_recursive") =>
    returned.ret.value = (IF StartWasNew THEN scraped_content ELSE EmptyMap)

\* C12's case: a crawl that stored pages has returned, and so has a second
\* scrape_recursive on an URL the first had visited.
C12_Witness ==
  /\ Idle /\ returned.op = "scrape_recursive" /\ calls = 2
  /\ ~ StartWasNew
  /\ Cardinality(Keys) >= 2

\* s occurs in t (substring)
IsSubSeq(s, t) ==
  \E k \in 0..(Len(t) - Len(s)) : SubSeq(t, k + 1, k + Len(s)) = s
\* the request of url made by the call that last returned failed
LastCallFailed ==
  \E i \in 1..Len(log) :
    log[i].url = returned.url /\ log[i].call = calls /\ log[i].status = "error"

\* C17: the page result scrape_page returns for a failed page has status error,
\* no links, a metadata of title "Error", and a content holding the word
\* "Error" and the failing URL; inside scrape_recursive the failed page hands
\* the loop no links.
C17_ErrorResultShape ==
  /\ (Idle /\ returned.op = "scrape_page" /\ returned.ret.kind = "page" /\ LastCallFailed) =>
       LET r == returned.ret.result
       IN  /\ r.status = "error"
           /\ r.links = << >>
           /\ r.metadata.title = "Error"
           /\ IsSubSeq(<<"Error">>, r.content)
           /\ IsSubSeq(returned.url, r.content)
  /\ \A k \in 1..Len(stack) :
       (\E i \in 1..Len(log) :
          log[i].url = stack[k].start_url /\ log[i].status = "error" /\ stack[k].pc # "enter")
         => stack[k].links = << >>

\* C17's case: scrape_page has returned the result of a page whose processing
\* failed, and of one whose request failed.
C17_Witness ==
  /\ Idle /\ returned.op = "scrape_page" /\ returned.ret.kind = "page" /\ LastCallFailed
  /\ returned.url = OtherHome
  /\ IsSubSeq(<<ProcessingError>>, returned.ret.result.content)

\* ------------------------------------------------------ the policy study
\* _is_valid_url asked about candidate URLs, on sessions of several base URLs.
QueryAtoms == {"?v=2"}
FragmentAtoms == {"#top"}
PathChoices == {<<"/">>, <<"/about">>, <<"/login">>, <<"/docs", "/api/", "v1">>}
ExtensionChoices == {<< >>, <<".png">>, <<".PNG">>, <<".xml">>}
\* candidates with a scheme and a netloc, and the malformed ones: no scheme, or
\* no host after it
CandidateUrls ==
  {<<Scheme, h>> \o p \o e \o q \o f :
     h \in HostAtoms, p \in PathChoices, e \in ExtensionChoices,
     q \in {<< >>, <<"?v=2">>}, f \in {<< >>, <<"#top">>}}
  \cup {<<Scheme, h>> : h \in HostAtoms}
  \cup {<<"example.test">>, <<"example.test", "/about">>, <<"/about">>, <<Scheme, "/about">>}
\* the base_url arguments of __init__
BaseUrls ==
  {Anchor, Login, U(<<"/sitemap", ".xml">>), <<Scheme, "example.test:8080", "/">>,
   <<"example.test">>, <<"/about">>}

\* BasicSiteScraper(base_url): lines 33-41 run for any string, none is refused
InitPolicy ==
  /\ site = EmptyMap
  /\ flaky = FALSE
  /\ base_url \in BaseUrls
  /\ base_netloc = netloc(base_url)
  /\ max_depth = MaxDepth
  /\ visited_urls = {}
  /\ scraped_content = EmptyMap
  /\ stack = << >>
  /\ returned = NothingReturned
  /\ calls = 0
  /\ sleeps = 0
  /\ log = << >>
  /\ prev = NoSession
  /\ NoVolume

\* a call of self._is_valid_url(url)
CallIsValidUrl(url) ==
  /\ stack = << >>
  /\ returned' = [op |-> "_is_valid_url", url |-> url,
                  ret |-> [kind |-> "bool", value |-> is_valid_url(url, base_netloc)]]
  /\ UNCHANGED <<visited_urls, scraped_content, stack, calls, sleeps, log>>
  /\ Unchanged_session

NextPolicy == \E url \in CandidateUrls \cup BaseUrls : CallIsValidUrl(url)

SpecPolicy == InitPolicy /\ [][NextPolicy]_vars

\* _is_valid_url has answered about the candidate returned.url
Asked == returned.op = "_is_valid_url"
Candidate == returned.url
InScope == returned.ret.value
\* the candidate has a scheme and a netloc
WellFormed(url) == Len(url) >= 2 /\ url[1] = Scheme /\ url[2] \in HostAtoms
\* the path of a well-formed URL: what follows the netloc, up to the query or the fragment
IsPathAtom(a) == a \notin QueryAtoms \cup FragmentAtoms
PathOf(url) == SelectSeq(SubSeq(url, 3, Len(url)), IsPathAtom)

\* C13: a candidate whose netloc (host, with its port if any) is not the
\* session's base_netloc is out of scope, whatever its path, query and fragment.
C13_OtherHostOutOfScope ==
  (Asked /\ WellFormed(Candidate) /\ Candidate[2] # base_netloc) => ~ InScope

\* C13's case: a subdomain of the base host, with an innocuous path, a query
\* and a fragment, was asked about on a session of example.test and refused.
C13_Witness ==
  /\ Asked /\ base_netloc = "example.test"
  /\ Candidate = <<Scheme, "sub.example.test", "/about", "?v=2", "#top">>
  /\ ~ InScope

\* C14: a candidate on the base host whose path ends with a skip extension, in
\* any letter case, is out of scope, whatever query or fragment follows.
C14_SkipExtensionOutOfScope ==
  (Asked /\ WellFormed(Candidate) /\ Candidate[2] = base_netloc
     /\ \E ext \in skip_extensions : EndsWith(PathOf(Candidate), ext))
    => ~ InScope

C16_NoSessionWithoutHost ==
  /\ base_netloc # ""
  /\ (Asked /\ netloc(Candidate) = "") => ~ InScope

\* ---------------------------------------------------- the metadata study
\* scrape_page on a site of one page, over the documents of up to MaxElements
\* elements.
MaxElements == 3
ElementChoices ==
  {El("title", "Home", "head"),
   El("title", "Menu", "nav"),
   Meta("description", <<"About us">>, "head"),
   Meta("description", << >>, "head"),
   Meta("keywords", <<"bikes">>, "head"),
   El("h1", "Site", "header"),
   El("h2", " Welcome ", "body"),
   El("h1", "  ", "p"),
   El("h2", "Contact", "footer"),
   El("comment", "h1", "body")}
Documents ==
  {[hrefs |-> << <<"/about">> >>, regions |-> <<"nav">>, elements |-> e] :
     e \in UNION {[1..n -> ElementChoices] : n \in 0..MaxElements}}

InitMeta ==
  /\ site \in {(Anchor :> d) : d \in Documents}
  /\ flaky = FALSE
  /\ base_url = Anchor
  /\ base_netloc = netloc(base_url)
  /\ max_depth = MaxDepth
  /\ visited_urls = {}
  /\ scraped_content = EmptyMap
  /\ stack = << >>
  /\ returned = NothingReturned
  /\ calls = 0
  /\ sleeps = 0
  /\ log = << >>
  /\ prev = NoSession
  /\ NoVolume

NextMeta == CallScrapePage(Anchor)

SpecMeta == InitMeta /\ [][NextMeta]_vars

\* the last call was a scrape_page that returned a success result
PageSucceeded ==
  /\ returned.op = "scrape_page"
  /\ returned.ret.kind = "page"
  /\ returned.ret.result.status = "success"
\* the document that call fetched, element by element
Fetched == site[returned.url].elements
Least(I) == CHOOSE i \in I : \A j \in I : i <= j
\* title, description and main heading read off the elements of doc that Seen
\* admits, each with its own default
MetadataFrom(doc, Seen(_)) ==
  LET T == {i \in DOMAIN doc : Seen(i) /\ doc[i].tag = "title"}
      D == {i \in DOMAIN doc : Seen(i) /\ doc[i].tag = "meta" /\ doc[i].name = "description"}
      H == {i \in DOMAIN doc : Seen(i) /\ doc[i].tag \in {"h1", "h2"}}
  IN  [title |-> IF T = {} THEN "Untitled" ELSE Strip(doc[Least(T)].text),
       description |-> IF D = {} \/ doc[Least(D)].content = << >>
                       THEN "" ELSE doc[Least(D)].content[1],
       main_heading |-> IF H = {} THEN "" ELSE Strip(doc[Least(H)].text)]
\* element i of doc is left by the cleaning: it is no script, style, nav,
\* footer, header or comment, is inside none of these, and is not inside a
\* paragraph without text
Layout == {"script", "style", "nav", "footer", "header"}
Outside(doc, i) ==
  doc[i].tag \notin Layout \cup {"comment"} /\ doc[i].inside \notin Layout
Survives(doc, i) ==
  /\ Outside(doc, i)
  /\ doc[i].inside = "p" =>
       \E j \in DOMAIN doc : Outside(doc, j) /\ doc[j].inside = "p" /\ Strip(doc[j].text) # ""
SameFields(metadata, m) ==
  /\ metadata.title = m.title
  /\ metadata.description = m.description
  /\ metadata.main_heading = m.main_heading

\* C18 as stated: the metadata of a success result has the stripped text of the
\* first title of the fetched document (else "Untitled"), the content of its
\* first description meta (else ""), and the stripped text of its first h1 or
\* h2 (else ""), each field defaulting on its own.
C18_MetadataOfFetchedDocument ==
  PageSucceeded =>
    LET AnyElement(i) == TRUE
    IN  SameFields(returned.ret.result.metadata, MetadataFrom(Fetched, AnyElement))

\* What scrape_page does where C18 fails: the three fields are read off the
\* fetched document after _clean_html: elements that are, or are inside, a script, style, nav, footer
\* or header, comments, and the content of a paragraph without text do not
\* count.
C18_MetadataOfCleanedDocument ==
  PageSucceeded =>
    LET Left(i) == Survives(Fetched, i)
    IN  SameFields(returned.ret.result.metadata, MetadataFrom(Fetched, Left))

\* ------------------------------------------------ data_downloader: files
\* A file tree is a function from the paths that exist (sequences of names,
\* << >> the root directory) to their nodes.
Dir == [kind |-> "dir", data |-> ""]
File(data) == [kind |-> "file", data |-> data]
Exists(fs, path) == path \in DOMAIN fs
IsDir(fs, path) == Exists(fs, path) /\ fs[path].kind = "dir"
IsPrefix(p, q) == Len(p) <= Len(q) /\ SubSeq(q, 1, Len(p)) = p
\* path and everything below it
Under(fs, path) == {q \in DOMAIN fs : IsPrefix(path, q)}
\* source.iterdir()
Children(fs, path) == {q \in DOMAIN fs : Len(q) = Len(path) + 1 /\ IsPrefix(path, q)}
Name(path) == path[Len(path)]
Done(fs) == [fs |-> fs, raised |-> "none"]
Raised(fs, error) == [fs |-> fs, raised |-> error]

\* Path.mkdir(parents=True, exist_ok=True)
mkdir(fs, path) ==
  LET prefixes == {SubSeq(path, 1, n) : n \in 0..Len(path)}
  IN  IF \E q \in prefixes : Exists(fs, q) /\ ~ IsDir(fs, q)
      THEN Raised(fs, "FileExistsError")
      ELSE Done([q \in (DOMAIN fs) \cup prefixes |-> IF Exists(fs, q) THEN fs[q] ELSE Dir])

\* shutil.rmtree(path), Path.unlink()
remove(fs, path) == [q \in (DOMAIN fs) \ Under(fs, path) |-> fs[q]]

\* shutil.copytree(item, dest_path), dest_path not existing
copytree(src, item, fs, dest_path) ==
  LET Dest(q) == dest_path \o SubSeq(q, Len(item) + 1, Len(q))
      copied == {Dest(q) : q \in Under(src, item)}
  IN  [d \in (DOMAIN fs) \cup copied |->
         IF d \in copied
         THEN src[CHOOSE q \in Under(src, item) : Dest(q) = d]
         ELSE fs[d]]

\* shutil.copy2(item, dest_path): into the directory when dest_path is one
copy2(src, item, fs, dest_path) ==
  LET target == IF IsDir(fs, dest_path) THEN Append(dest_path, Name(item)) ELSE dest_path
  IN  [d \in (DOMAIN fs) \cup {target} |-> IF d = target THEN src[item] ELSE fs[d]]

\* an existing destination file copied over all the same (a mutant of KeepsExisting)
KeepsExisting_never(fs, dest_path, overwrite) == FALSE

\* _copy_contents, lines 244-251: `continue` on an existing dest_path when
\* overwrite is off
KeepsExisting(fs, dest_path, overwrite) == Exists(fs, dest_path) /\ ~ overwrite

RECURSIVE copy_contents(_, _, _, _, _)
RECURSIVE CopyItems(_, _, _, _, _)
\* the body of the loop of _copy_contents for one item
CopyItem(src, item, fs, destination, overwrite) ==
  LET dest_path == Append(destination, Name(item))
  IN  IF IsDir(src, item)
      THEN IF Exists(fs, dest_path) /\ overwrite
           THEN IF IsDir(fs, dest_path)
                THEN {Done(copytree(src, item, remove(fs, dest_path), dest_path))}
                ELSE {Raised(fs, "NotADirectoryError")}
           ELSE IF Exists(fs, dest_path)
           THEN copy_contents(src, item, fs, dest_path, overwrite)
           ELSE {Done(copytree(src, item, fs, dest_path))}
      ELSE IF KeepsExisting(fs, dest_path, overwrite)
           THEN {Done(fs)}
           ELSE LET cleared == IF Exists(fs, dest_path) /\ overwrite
                               THEN remove(fs, dest_path) ELSE fs
                IN  {Done(copy2(src, item, mkdir(cleared, destination).fs, dest_path))}

\* the loop of _copy_contents over the items left, in the order iterdir gives
\* them, until one raises
CopyItems(src, items, fs, destination, overwrite) ==
  IF items = {} THEN {Done(fs)}
  ELSE UNION {UNION {IF o.raised # "none" THEN {o}
                     ELSE CopyItems(src, items \ {item}, o.fs, destination, overwrite)
                     : o \in CopyItem(src, item, fs, destination, overwrite)}
              : item \in items}

\* _copy_contents(source, destination, overwrite): the outcomes it can have
copy_contents(src, source, fs, destination, overwrite) ==
  LET made == mkdir(fs, destination)
  IN  IF made.raised # "none" THEN {made}
      ELSE IF ~ IsDir(src, source) THEN {Raised(made.fs, "NotADirectoryError")}
      ELSE CopyItems(src, Children(src, source), made.fs, destination, overwrite)

\* ------------------------------------- data_downloader: seeding a volume
target_dirs == <<"trip_data", "mobi_site">>
sentinel == <<".backup_seeded">>
Returned(fs, ret) == [fs |-> fs, ret |-> ret]
Raise(error) == [kind |-> "raise", error |-> error]
TargetDirs == [kind |-> "target_dirs"]

\* seed_volume_from_backup, lines 288-293: the volume was seeded before
AlreadySeeded(fs, overwrite) ==
  /\ Exists(fs, sentinel)
  /\ ~ overwrite
  /\ \A i \in 1..Len(target_dirs) : Exists(fs, <<target_dirs[i]>>)

\* sentinel.touch(): an existing file keeps its content
touch(fs, path) ==
  IF Exists(fs, path) THEN fs
  ELSE [q \in (DOMAIN fs) \cup {path} |-> IF q = path THEN File("") ELSE fs[q]]

\* the loop over target_dirs from its i-th entry on, lines 304-311
RECURSIVE Restore(_, _, _, _)
Restore(i, fs, base_dir, overwrite) ==
  IF i > Len(target_dirs) THEN {Done(fs)}
  ELSE LET src_dir == Append(base_dir, target_dirs[i])
       IN  IF ~ Exists(bundle.tree, src_dir)
           THEN {Raised(fs, "RuntimeError")}
           ELSE UNION {IF o.raised # "none" THEN {o}
                       ELSE Restore(i + 1, o.fs, base_dir, overwrite)
                       : o \in copy_contents(bundle.tree, src_dir, fs,
                                             <<target_dirs[i]>>, overwrite)}

\* seed_volume_from_backup(volume_root, bundle_path, overwrite): its outcomes.
\* bundle.tree is what extractall leaves in the temporary directory.
seed_volume_from_backup(overwrite) ==
  IF ~ bundle.exists
  THEN {Returned(volume, Raise("FileNotFoundError"))}
  ELSE LET rooted == mkdir(volume, << >>).fs
           base_dir == IF Exists(bundle.tree, <<"data">>) THEN <<"data">> ELSE << >>
       IN  IF AlreadySeeded(rooted, overwrite)
           THEN {Returned(rooted, TargetDirs)}
           ELSE {IF o.raised # "none"
                 THEN Returned(o.fs, Raise(o.raised))
                 ELSE Returned(touch(o.fs, sentinel), TargetDirs)
                 : o \in Restore(1, rooted, base_dir, overwrite)}

\* the archives: with and without the top-level data directory, one without
\* mobi_site, and none at bundle_path
Bundled(base) ==
  (base \o <<"trip_data">> :> Dir)
  @@ (base \o <<"trip_data", "2024.csv">> :> File("bundled"))
  @@ (base \o <<"trip_data", "archive">> :> Dir)
  @@ (base \o <<"trip_data", "archive", "2023.csv">> :> File("bundled"))
  @@ (base \o <<"mobi_site">> :> Dir)
  @@ (base \o <<"mobi_site", "index.md">> :> File("bundled"))
BundleWithData == (<< >> :> Dir) @@ (<<"data">> :> Dir) @@ Bundled(<<"data">>)
BundleFlat == (<< >> :> Dir) @@ Bundled(<< >>)
BundleWithoutSite == remove(BundleFlat, <<"mobi_site">>)
Bundles ==
  {[exists |-> TRUE, tree |-> t] : t \in {BundleWithData, BundleFlat, BundleWithoutSite}}
  \cup {NoBundle}
\* where other programs and the user create and delete files
VolumePaths == ((DOMAIN Bundled(<< >>)) \cup {sentinel})

ScraperUnused ==
  UNCHANGED <<site, flaky, base_url, base_netloc, max_depth, visited_urls,
              scraped_content, stack, calls, sleeps, log, prev>>

InitSeed ==
  /\ site = EmptyMap
  /\ flaky = FALSE
  /\ base_url = Anchor
  /\ base_netloc = netloc(base_url)
  /\ max_depth = MaxDepth
  /\ visited_urls = {}
  /\ scraped_content = EmptyMap
  /\ stack = << >>
  /\ returned = NothingReturned
  /\ calls = 0
  /\ sleeps = 0
  /\ log = << >>
  /\ prev = NoSession
  /\ volume = EmptyMap
  /\ bundle \in Bundles

\* a call of seed_volume_from_backup
SeedVolume(overwrite) ==
  /\ \E o \in seed_volume_from_backup(overwrite) :
       /\ volume' = o.fs
       /\ returned' = [op |-> "seed_volume_from_backup", url |-> NoUrl, ret |-> o.ret,
                       overwrite |-> overwrite]
  /\ UNCHANGED bundle
  /\ ScraperUnused

\* a call of _copy_contents from a directory of the archive to one of the volume
CallCopyContents(source, destination, overwrite) ==
  /\ bundle.exists
  /\ IsDir(bundle.tree, source)
  /\ \E o \in copy_contents(bundle.tree, source, volume, destination, overwrite) :
       /\ volume' = o.fs
       /\ returned' = [op |-> "_copy_contents", url |-> NoUrl,
                       ret |-> IF o.raised # "none" THEN Raise(o.raised) ELSE None,
                       overwrite |-> overwrite]
  /\ UNCHANGED bundle
  /\ ScraperUnused

ByOthers == [op |-> "other", url |-> NoUrl, ret |-> None]

\* someone deletes a file or a directory of the volume
DeletePath(path) ==
  /\ Exists(volume, path)
  /\ volume' = remove(volume, path)
  /\ returned' = ByOthers
  /\ UNCHANGED bundle
  /\ ScraperUnused

\* someone creates a file or a directory in the volume
CreatePath(path, node) ==
  /\ ~ Exists(volume, path)
  /\ LET made == mkdir(volume, SubSeq(path, 1, Len(path) - 1))
     IN  /\ made.raised = "none"
         /\ volume' = [q \in (DOMAIN made.fs) \cup {path} |->
                         IF q = path THEN node ELSE made.fs[q]]
  /\ returned' = ByOthers
  /\ UNCHANGED bundle
  /\ ScraperUnused

NextSeed ==
  \/ \E overwrite \in BOOLEAN : SeedVolume(overwrite)
  \/ \E source \in {<<"trip_data">>, <<"data", "trip_data">>, <<"trip_data", "archive">>},
        destination \in {<<"trip_data">>, <<"trip_data", "archive">>},
        overwrite \in BOOLEAN : CallCopyContents(source, destination, overwrite)
  \/ \E path \in VolumePaths : DeletePath(path)
  \/ \E path \in VolumePaths, node \in {Dir, File("user")} : CreatePath(path, node)

SpecSeed == InitSeed /\ [][NextSeed]_vars

\* the last step was a normal return of seed_volume_from_backup
Seeded == returned.op = "seed_volume_from_backup" /\ returned.ret.kind = "target_dirs"
\* the files of the archive under trip_data and mobi_site, as paths of the volume
BundledFiles ==
  LET base == IF Exists(bundle.tree, <<"data">>) THEN <<"data">> ELSE << >>
  IN  {SubSeq(q, Len(base) + 1, Len(q)) :
         q \in {q \in DOMAIN bundle.tree :
                  /\ bundle.tree[q].kind = "file"
                  /\ \E i \in 1..Len(target_dirs) : IsPrefix(Append(base, target_dirs[i]), q)}}

\* C19: when seed_volume_from_backup has returned normally, every file the
\* archive holds under trip_data and mobi_site exists in the volume.
C19_SeededVolumeHoldsBundle ==
  Seeded => \A path \in BundledFiles : Exists(volume, path)

\* C20: a step of seed_volume_from_backup or _copy_contents with overwrite off
\* leaves every file that existed in the volume in place with its content.
C20_OnlyAddsMissing ==
  [][(/\ returned'.op \in {"seed_volume_from_backup", "_copy_contents"}
      /\ ~ returned'.overwrite)
     => \A path \in DOMAIN volume :
          volume[path].kind = "file" =>
            (Exists(volume', path) /\ volume'[path] = volume[path])]_vars

\* C20's case: a seeding with overwrite off has returned on a volume that held
\* a file of its own where the archive has one: that file is as it was, and the
\* missing file two directories down has been added.
C20_Witness ==
  /\ Seeded /\ ~ returned.overwrite
  /\ Exists(volume, <<"trip_data", "2024.csv">>)
  /\ volume[<<"trip_data", "2024.csv">>] = File("user")
  /\ Exists(volume, <<"trip_data", "archive", "2023.csv">>)
  /\ volume[<<"trip_data", "archive", "2023.csv">>] = File("bundled")

\* ------------------------------------------------------- the crawl runs
\* A call of scrape_recursive that has started keeps running: no statement of
\* it blocks for ever (the request has timeout=30, the sleep is finite).
NextLive == (\E url \in StartUrls : CallScrapeRecursive(url)) \/ Step
SpecLive == Init /\ [][NextLive]_vars /\ WF_vars(Step)

\* the last top-level call to finish was a scrape_recursive that returned a mapping
ReturnedMapping ==
  Idle /\ returned.op = "scrape_recursive" /\ returned.ret.kind = "mapping"

\* C21: no call of scrape_recursive ever ends by raising, and every call of
\* scrape_recursive that is running ends: it returns a mapping to its caller,
\* whatever the site (cycles and self-links included), max_depth and the
\* outcomes of the requests.
C21_CrawlReturns ==
  /\ [](returned.ret.kind # "raise")
  /\ (stack # << >>) ~> ReturnedMapping

\* C21's case: a crawl of the site with a self-link and links back to the
\* anchor has returned after requests that failed and requests that succeeded.
C21_Witness ==
  /\ ReturnedMapping /\ returned.url = Anchor
  /\ site = SiteScenarioA /\ About \in visited_urls
  /\ \E i \in 1..Len(log) : log[i].status = "error"
  /\ \E i \in 1..Len(log) : log[i].status = "success"

\* the position of x in the duplicate-free list s
Index(s, x) == CHOOSE n \in 1..Len(s) : s[n] = x
\* requests i and j were made for two links of one page, in one run
Siblings(i, j) ==
  /\ log[i].call = log[j].call
  /\ log[i].parent # NoUrl
  /\ log[i].parent = log[j].parent
\* request k was made in the subtree of request i: for i's URL or, through
\* the pages that led to it, below it
RECURSIVE Descends(_, _)
Descends(k, i) ==
  \/ k = i
  \/ /\ k > i
     /\ \E m \in i..(k - 1) :
          /\ log[m].url = log[k].parent /\ log[m].call = log[k].call
          /\ Descends(m, i)

\* C22: the requests for the links of a page are made in the order of the
\* page's stored links; between the request for a link and the request for a
\* later link of the same page, every request belongs to the subtree of the
\* first or of a link between the two, and none of the first's subtree comes
\* later; a link is never requested when
\* it was requested before, and a running loop has left behind only links that
\* are visited or lie beyond max_depth.
C22_DepthFirstInLinkOrder ==
  /\ \A i, j \in 1..Len(log) :
       (i < j /\ Siblings(i, j)) =>
         LET links == scraped_content[log[i].parent].links
         IN  /\ Index(links, log[i].url) < Index(links, log[j].url)
             /\ \A k \in i..(j - 1) :
                  \E h \in i..k : (h = i \/ Siblings(i, h)) /\ Descends(k, h)
             /\ \A k \in j..Len(log) : ~ Descends(k, i)
  /\ \A j \in 1..Len(log) :
       log[j].parent # NoUrl => \A i \in 1..(j - 1) : log[i].url # log[j].url
  /\ \A n \in 1..Len(stack) :
       stack[n].pc \in {"loop", "after"} =>
         \A m \in 1..(stack[n].i - 1) :
           m <= Len(stack[n].links) =>
             (stack[n].links[m] \in visited_urls \/ stack[n].current_depth >= max_depth)

\* C22's case: a crawl has returned in which a page of two links had the
\* subtree of its first link requested before its second link, and in which a
\* link of a page within the depth bound was skipped, being visited already.
C22_Witness ==
  /\ ReturnedMapping
  /\ \E i, j \in 1..Len(log) :
       /\ i + 1 < j /\ Siblings(i, j)
       /\ Descends(j - 1, i)
  /\ \E p \in 1..Len(log) :
       /\ log[p].status = "success" /\ log[p].depth < max_depth
       /\ \E n \in 1..Len(scraped_content[log[p].url].links) :
            \E q \in 1..Len(log) :
              /\ log[q].url = scraped_content[log[p].url].links[n]
              /\ log[q].parent # log[p].url

\* C23: no step of the session takes a URL out of visited_urls, or takes out
\* or changes an entry of scraped_content; and every key of scraped_content
\* is in visited_urls.
C23_SessionStateOnlyGrows ==
  /\ [][/\ visited_urls \subseteq visited_urls'
        /\ \A url \in DOMAIN scraped_content :
             /\ url \in DOMAIN scraped_content'
             /\ scraped_content'[url] = scraped_content[url]]_vars
  /\ [](Keys \subseteq visited_urls)

\* C23's case: the session holds entries written by its first call, its
\* second call has requested pages too, some failing, some stored, and has
\* returned.
C23_Witness ==
  /\ Idle /\ calls = 2
  /\ \E i, j, k \in 1..Len(log) :
       /\ log[i].call = 1 /\ log[i].url \in Keys
       /\ log[j].call = 2 /\ log[j].url \in Keys
       /\ log[k].call = 2 /\ log[k].status = "error"

\* the link u of the page at url occurs in its document inside nav, footer or
\* header elements only
InLayoutOnly(url, u) ==
  LET doc == site[url]
      at == {i \in 1..Len(doc.hrefs) : urljoin(url, doc.hrefs[i]) = u}
  IN  at # {} /\ \A i \in at : doc.regions[i] \in {"nav", "footer", "header"}
\* the markdown content renders a link to href
LinksTo(content, href) == IsSubSeq(<<"](">> \o href \o <<")">>, content)
\* the call of scrape_recursive for url is over
Finished(url) == \A n \in 1..Len(stack) : stack[n].start_url # url

\* C24: for every page fetched with success, a link that passes the policy and
\* occurs only inside nav, footer or header elements of the document is among
\* the page's stored links, and the page's content renders no link to it; when
\* scrape_recursive fetched the page at a depth below max_depth and is done
\* with it, the link has been requested.
C24_LayoutLinksAreFollowed ==
  \A p \in 1..Len(log) :
    log[p].status = "success" =>
      LET url == log[p].url
          doc == site[url]
          result == scraped_content[url]
      IN  \A i \in 1..Len(doc.hrefs) :
            LET u == urljoin(url, doc.hrefs[i])
            IN  (InLayoutOnly(url, u) /\ is_valid_url(u, base_netloc)) =>
                  /\ u \in Range(result.links)
                  /\ ~ LinksTo(result.content, doc.hrefs[i])
                  /\ (/\ log[p].op = "scrape_recursive"
                      /\ log[p].depth < max_depth
                      /\ Finished(url)) => u \in LogUrls

\* C24's case: the crawl of the anchor page, whose link to /c is in its nav
\* and whose link to /b is in its body, has returned: /c was requested as a
\* link of the anchor and stored, the anchor's content links to /b, not to /c.
C24_Witness ==
  /\ ReturnedMapping /\ site = SiteSiblings
  /\ Anchor \in Keys /\ PageC \in Keys
  /\ \E q \in 1..Len(log) : log[q].url = PageC /\ log[q].parent = Anchor
  /\ LinksTo(scraped_content[Anchor].content, <<"/b">>)
  /\ ~ LinksTo(scraped_content[Anchor].content, <<"/c">>)
  /\ InLayoutOnly(Anchor, PageC)

\* C25: between two consecutive requests of one run of scrape_recursive
\* exactly one time.sleep(self.delay) is executed.
C25_OneSleepBetweenFetches ==
  \A i \in 2..Len(log) :
    (log[i].op = "scrape_recursive" /\ log[i - 1].call = log[i].call) => log[i].gap = 1

\* --------------------------------------- data_downloader: the trip data
\* The system-data page and the files it links to are pages of the web
\* (site); the output directory is the file tree (volume).
DataPage == U(<<"/system-data">>)
January == <<"/files/", "2024-01", ".csv">>
February == <<"/files/", "2024-02", ".CSV">>
Undated == <<"/files/", "trips", ".zip">>
DataSite ==
  (DataPage :> Doc(<<January, <<"/about">>, February, Undated>>))
  @@ (U(January) :> Doc(<< >>))
  @@ (U(February) :> Doc(<< >>))
  @@ (U(Undated) :> Doc(<< >>))

\* get_available_data_files, lines 60-63: a Google Drive link, or .csv or .zip
\* in the lowered href
IsDataLink(href) ==
  \E i \in 1..Len(href) : Lower(href[i]) \in {".csv", ".zip", "drive.google.com"}

\* lines 66-95 and 113: the file name from the year and month found in the
\* href (the link texts of the modelled pages name no month)
filename(href) ==
  IF \E i \in 1..Len(href) : href[i] = "2024-01" THEN "mobi_2024_January.csv"
  ELSE IF \E i \in 1..Len(href) : href[i] = "2024-02" THEN "mobi_2024_February.csv"
  ELSE "mobi_Unknown_Unknown.csv"

\* the loop of lines 56-124 from the i-th link on
RECURSIVE data_files(_, _, _)
data_files(hrefs, i, page_url) ==
  IF i > Len(hrefs) THEN << >>
  ELSE IF IsDataLink(hrefs[i])
  THEN <<[url |-> urljoin(page_url, hrefs[i]), filename |-> filename(hrefs[i])]>>
       \o data_files(hrefs, i + 1, page_url)
  ELSE data_files(hrefs, i + 1, page_url)

\* get_available_data_files(base_url): the list, or the exception it raises
get_available_data_files(page_url) ==
  {IF resp.kind = "ok"
   THEN [raised |-> "none", files |-> data_files(resp.doc.hrefs, 1, page_url)]
   ELSE [raised |-> "MobiDataDownloaderError", files |-> << >>]
   : resp \in Responses(page_url)}

\* what requests.get(url, stream=True) and the reading of its body can do: all
\* of the body, an error before any of it (also an HTML page in place of the
\* file), or an error while the body is read
Truncated == "ChunkedEncodingError"
FileResponses(url) ==
  IF url \in DOMAIN site
  THEN {"ok"} \cup (IF flaky THEN {RequestError, Truncated} ELSE {})
  ELSE {RequestError}

\* open(output_path, "wb") and the writes to it
written(fs, path, data) ==
  [q \in (DOMAIN fs) \cup {path} |-> IF q = path THEN File(data) ELSE fs[q]]

\* download_file, lines 151-154, when iter_content raises: the file opened
\* for writing stays, with the chunks written so far
WrittenUntilError(fs, output_path) == written(fs, output_path, "partial")

\* download_file(url, output_path) with the response resp
download_file(url, output_path, fs, resp) ==
  IF resp = RequestError THEN Raised(fs, "MobiDataDownloaderError")
  ELSE LET made == mkdir(fs, SubSeq(output_path, 1, Len(output_path) - 1))
       IN  IF made.raised # "none" \/ IsDir(made.fs, output_path)
           THEN Raised(made.fs, "MobiDataDownloaderError")
           ELSE IF resp = Truncated
           THEN Raised(WrittenUntilError(made.fs, output_path), "MobiDataDownloaderError")
           ELSE Done(written(made.fs, output_path, "complete"))

\* lines 199-203: the file is there and overwrite is off
SkipsExisting(fs, output_path, overwrite) == Exists(fs, output_path) /\ ~ overwrite

\* the loop of download_all_trip_data from the i-th file on: the outcomes, each
\* with the file tree, the list downloaded_files and the requests made
RECURSIVE DownloadFrom(_, _, _, _, _, _)
DownloadFrom(files, i, fs, downloaded_files, requests, overwrite) ==
  IF i > Len(files)
  THEN {[fs |-> fs, downloaded_files |-> downloaded_files, requests |-> requests]}
  ELSE LET output_path == <<files[i].filename>>
       IN  IF SkipsExisting(fs, output_path, overwrite)
           THEN DownloadFrom(files, i + 1, fs, Append(downloaded_files, output_path),
                             requests, overwrite)
           ELSE UNION {LET o == download_file(files[i].url, output_path, fs, resp)
                           ok == o.raised = "none"
                           request == [url |-> files[i].url, op |-> "download_file",
                                       depth |-> 0, parent |-> NoUrl,
                                       status |-> IF ok THEN "success" ELSE "error",
                                       call |-> calls + 1, gap |-> 0]
                       IN  DownloadFrom(files, i + 1, o.fs,
                                        IF ok THEN Append(downloaded_files, output_path)
                                        ELSE downloaded_files,
                                        Append(requests, request), overwrite)
                       : resp \in FileResponses(files[i].url)}

\* download_all_trip_data(output_dir, base_url, overwrite): its outcomes
download_all_trip_data(page_url, overwrite) ==
  LET made == mkdir(volume, << >>)
  IN  UNION {IF listing.raised # "none"
             THEN {[fs |-> made.fs, ret |-> Raise(listing.raised), requests |-> << >>]}
             ELSE {[fs |-> o.fs, ret |-> [kind |-> "paths", value |-> o.downloaded_files],
                    requests |-> o.requests]
                   : o \in DownloadFrom(listing.files, 1, made.fs, << >>, << >>, overwrite)}
             : listing \in get_available_data_files(page_url)}

InitDownload ==
  /\ site = DataSite
  /\ flaky = TRUE
  /\ base_url = DataPage
  /\ base_netloc = netloc(base_url)
  /\ max_depth = MaxDepth
  /\ visited_urls = {}
  /\ scraped_content = EmptyMap
  /\ stack = << >>
  /\ returned = NothingReturned
  /\ calls = 0
  /\ sleeps = 0
  /\ log = << >>
  /\ prev = NoSession
  /\ NoVolume

\* a call of download_all_trip_data
DownloadAllTripData(overwrite) ==
  /\ calls < MaxCalls
  /\ \E o \in download_all_trip_data(base_url, overwrite) :
       /\ volume' = o.fs
       /\ log' = log \o o.requests
       /\ returned' = [op |-> "download_all_trip_data", url |-> base_url, ret |-> o.ret,
                       overwrite |-> overwrite]
  /\ calls' = calls + 1
  /\ UNCHANGED <<visited_urls, scraped_content, stack, sleeps>>
  /\ UNCHANGED <<site, flaky, base_url, base_netloc, max_depth, prev, bundle>>

NextDownload == \E overwrite \in BOOLEAN : DownloadAllTripData(overwrite)

SpecDownload == InitDownload /\ [][NextDownload]_vars

\* download_all_trip_data has returned its list
DownloadReturned ==
  returned.op = "download_all_trip_data" /\ returned.ret.kind = "paths"
\* the requests of the i-th call that failed
FailedIn(call) == {i \in 1..Len(log) : log[i].call = call /\ log[i].status = "error"}
OutputPath(url) == <<filename(url)>>
Listed == data_files(site[DataPage].hrefs, 1, DataPage)

\* C26: when download_all_trip_data has returned after a download that failed:
\* every listed file was requested in this call or is in the output directory;
\* the path of the failed file is not in the returned list and nothing
\* exists at it; and a second call with overwrite off requests again every
\* file whose download failed in the first.
C26_FailedDownloadIsRetried ==
  DownloadReturned =>
    /\ \A i \in FailedIn(calls) :
         /\ \A n \in 1..Len(Listed) :
              \/ \E j \in 1..Len(log) : log[j].call = calls /\ log[j].url = Listed[n].url
              \/ Exists(volume, <<Listed[n].filename>>)
         /\ \A n \in 1..Len(returned.ret.value) :
              returned.ret.value[n] # OutputPath(log[i].url)
         /\ ~ Exists(volume, OutputPath(log[i].url))
    /\ (calls = 2 /\ ~ returned.overwrite) =>
         \A i \in FailedIn(1) :
           \E j \in 1..Len(log) : log[j].call = 2 /\ log[j].url = log[i].url

====
